---- MODULE Spec2Model ----
(***************************************************************************)
(* FlashDecky (src/app.py): the text-to-record parser, the duplex back-    *)
(* index remapping, the footer renderer and the PDF page builder.          *)
(*                                                                         *)
(* Text is a sequence of characters, each a string.  Lengths are kept in units *)
(* of 1/127 point, in which every grid coordinate and every offset that is *)
(* a multiple of 0.25 mm is an integer (0.25 mm = 90/127 pt).              *)
(***************************************************************************)
EXTENDS Integers, Sequences, FiniteSets, TLC

VARIABLES
    pc,            \* position of the running function
    \* map_back_index(i, cols, rows, mode)
    mapArg,        \* [i, cols, rows, mode]
    mapOut,        \* results of the successive applications
    \* render_footer(template, subject, unit, lesson, index1, page1)
    footArg,       \* [template, subject, unit, lesson, index1, page1]
    footOut,       \* the returned text
    \* split_term_def(s)
    splitArg,      \* the row
    splitOut,      \* <<term, definition>>
    \* parse_text_to_df(raw_text) and coalesce_lines(text)
    raw_text,      \* the input text
    lines,         \* text.splitlines(), still to be read
    chunks,        \* coalesce_lines: chunks
    curr,          \* coalesce_lines: curr
    blocks,        \* the rows coalesce_lines returned
    nblock,        \* parse_text_to_df: the rows already split
    items,         \* parse_text_to_df: items
    \* create_pdf(df, duplex_mode, offx_mm, offy_mm, include_footer, ...)
    records,       \* df.to_dict("records")
    cfg,           \* the other arguments; offx_mm and offy_mm in quarters of a mm
    start,         \* loop variable of the batch loop
    page_no,
    global_idx,
    i,             \* loop variable of the card loops
    page,          \* what was drawn on the page not yet shown
    canvas         \* the pages shown so far

mapVars   == <<mapArg, mapOut>>
footVars  == <<footArg, footOut>>
splitVars == <<splitArg, splitOut>>
parseVars == <<raw_text, lines, chunks, curr, blocks, nblock, items>>
pdfVars   == <<records, cfg, start, page_no, global_idx, i, page, canvas>>
vars      == <<pc, mapVars, footVars, splitVars, parseVars, pdfVars>>

-----------------------------------------------------------------------------
(* Bounds of the model *)
MaxCols == 3
MaxRows == 4

-----------------------------------------------------------------------------
(* Text primitives of Python's str, on sequences of characters *)

TAB == "\t"
NL  == "\n"
CR  == "\r"
\* the characters outside ASCII that the code names, each one character
BULLET == "<U+2022>"      \* bullet
ENDASH == "<U+2013>"      \* en dash
EMDASH == "<U+2014>"      \* em dash

IsSpace(c) == c \in {" ", TAB, NL, CR}
IsDigit(c) == c \in {"0", "1", "2", "3", "4", "5", "6", "7", "8", "9"}
IsAlpha(c) == c \in {"a", "b", "c", "d", "e", "f", "g", "h", "i", "j", "k",
                     "l", "m", "n", "o", "p", "q", "r", "s", "t", "u", "v",
                     "w", "x", "y", "z", "A", "B", "L", "S", "U"}

Min(a, b) == IF a < b THEN a ELSE b
Max(a, b) == IF a > b THEN a ELSE b

Tail_(s, k) == SubSeq(s, k, Len(s))          \* s[k-1:], k 1-based

RECURSIVE lstrip(_)
lstrip(s) == IF s # <<>> /\ IsSpace(Head(s)) THEN lstrip(Tail(s)) ELSE s

RECURSIVE rstrip(_)
rstrip(s) == IF s # <<>> /\ IsSpace(s[Len(s)])
             THEN rstrip(SubSeq(s, 1, Len(s) - 1)) ELSE s

strip(s) == lstrip(rstrip(s))

StartsWith(s, p) == Len(s) >= Len(p) /\ SubSeq(s, 1, Len(p)) = p

\* 1-based position of the first occurrence of sub in s, 0 when there is none
Find(s, sub) ==
    LET hits == {k \in 1..(Len(s) - Len(sub) + 1) :
                    SubSeq(s, k, k + Len(sub) - 1) = sub}
    IN IF hits = {} THEN 0 ELSE CHOOSE k \in hits : \A h \in hits : k <= h

Contains(s, sub) == Find(s, sub) # 0

\* s.replace(old, new), old non-empty: non-overlapping, left to right
RECURSIVE Replace(_, _, _)
Replace(s, old, new) ==
    LET k == Find(s, old)
    IN IF k = 0 THEN s
       ELSE SubSeq(s, 1, k - 1) \o new \o Replace(Tail_(s, k + Len(old)), old, new)

LowerChar(c) == CASE c = "A" -> "a" [] c = "B" -> "b" [] c = "L" -> "l"
                  [] c = "S" -> "s" [] c = "U" -> "u" [] OTHER -> c
Lower(s) == [k \in 1..Len(s) |-> LowerChar(s[k])]

DigitChar(d) == <<"0", "1", "2", "3", "4", "5", "6", "7", "8", "9">>[d + 1]
\* str(n) for n >= 0
RECURSIVE IntToStr(_)
IntToStr(n) == IF n < 10 THEN <<DigitChar(n)>>
               ELSE IntToStr(n \div 10) \o <<DigitChar(n % 10)>>

\* s or ""  (the arguments here are never None)
OrEmpty(s) == s
\* a or b on strings: the first non-empty one
Or(a, b) == IF a # <<>> THEN a ELSE b

-----------------------------------------------------------------------------
(* Duplex modes: the options of the "Duplex mode" selectbox *)

LongEdgeMirrored ==
    <<"L","o","n","g","-","e","d","g","e"," ","(","m","i","r","r","o","r","e","d",
      " ","b","a","c","k",")">>
LongEdgeNotMirrored ==
    <<"L","o","n","g","-","e","d","g","e"," ","(","n","o","t"," ","m","i","r","r",
      "o","r","e","d",")">>
ShortEdge ==
    <<"S","h","o","r","t","-","e","d","g","e"," ","(","m","i","r","r","o","r","e",
      "d"," ","b","a","c","k",")">>
DuplexModes == {LongEdgeMirrored, LongEdgeNotMirrored, ShortEdge}

COLS == 2
ROWS == 4

\* a plausible slip: the reflected row is counted from rows instead of rows-1
map_back_index_offbyone(idx, cols, rows, mode) ==
    LET row0 == idx \div cols
        col0 == idx % cols
        col1 == IF Contains(Lower(mode), <<"m","i","r","r","o","r","e","d">>)
                THEN (cols - 1) - col0 ELSE col0
        row1 == IF StartsWith(Lower(mode), <<"s","h","o","r","t","-","e","d","g","e">>)
                THEN rows - row0 ELSE row0
    IN row1 * cols + col1

map_back_index(idx, cols, rows, mode) ==
    LET row0 == idx \div cols
        col0 == idx % cols
        col1 == IF Contains(Lower(mode), <<"m","i","r","r","o","r","e","d">>)
                THEN (cols - 1) - col0 ELSE col0
        row1 == IF StartsWith(Lower(mode), <<"s","h","o","r","t","-","e","d","g","e">>)
                THEN (rows - 1) - row0 ELSE row0
    IN row1 * cols + col1

-----------------------------------------------------------------------------
(* Values the variables of the functions that are not running hold *)

IdleMap   == mapArg = [i |-> 0, cols |-> 1, rows |-> 1, mode |-> <<>>] /\ mapOut = <<>>
IdleFoot  == footArg = [template |-> <<>>, subject |-> <<>>, unit |-> <<>>,
                        lesson |-> <<>>, index1 |-> 0, page1 |-> 0]
             /\ footOut = <<>>
IdleSplit == splitArg = <<>> /\ splitOut = <<>>
IdleParse == raw_text = <<>> /\ lines = <<>> /\ chunks = <<>> /\ curr = <<>>
             /\ blocks = <<>> /\ nblock = 0 /\ items = <<>>
IdlePdf   == records = <<>>
             /\ cfg = [duplex_mode |-> <<>>, offx_mm |-> 0, offy_mm |-> 0,
                       include_footer |-> FALSE, subject |-> <<>>, unit |-> <<>>,
                       lesson |-> <<>>, footer_template |-> <<>>,
                       show_corner |-> FALSE]
             /\ start = 0 /\ page_no = 0 /\ global_idx = 0 /\ i = 0
             /\ page = <<>> /\ canvas = <<>>

-----------------------------------------------------------------------------
(* map_back_index applied to an index of a grid, and again to its result *)

InitMap ==
    /\ pc = "map_start"
    /\ \E c \in 1..MaxCols, r \in 1..MaxRows, m \in DuplexModes :
         \E idx \in 0..(c * r - 1) :
            mapArg = [i |-> idx, cols |-> c, rows |-> r, mode |-> m]
    /\ mapOut = <<>>
    /\ IdleFoot /\ IdleSplit /\ IdleParse /\ IdlePdf

MapOnce ==
    /\ pc = "map_start"
    /\ mapOut' = <<map_back_index(mapArg.i, mapArg.cols, mapArg.rows, mapArg.mode)>>
    /\ pc' = "map_once"
    /\ UNCHANGED <<mapArg, footVars, splitVars, parseVars, pdfVars>>

MapTwice ==
    /\ pc = "map_once"
    /\ mapOut' = Append(mapOut,
                   map_back_index(mapOut[1], mapArg.cols, mapArg.rows, mapArg.mode))
    /\ pc' = "map_twice"
    /\ UNCHANGED <<mapArg, footVars, splitVars, parseVars, pdfVars>>

NextMap == MapOnce \/ MapTwice
SpecMap == InitMap /\ [][NextMap]_vars

OnGrid == mapArg.cols = COLS /\ mapArg.rows = ROWS

\* C1: on the 2 x 4 grid map_back_index is the identity under "Long-edge (not
\* mirrored)", reflects the column only under "Long-edge (mirrored back)" and
\* reflects row and column under "Short-edge (mirrored back)".
C1_SpecifiedRemap ==
    (pc = "map_once" /\ OnGrid) =>
        LET idx == mapArg.i
            row == idx \div 2
            col == idx % 2
        IN mapOut[1] = CASE mapArg.mode = LongEdgeNotMirrored -> idx
                         [] mapArg.mode = LongEdgeMirrored -> row * 2 + (1 - col)
                         [] mapArg.mode = ShortEdge -> (3 - row) * 2 + (1 - col)

\* C2: under the two mirrored modes, on the 2 x 4 grid, mapping an index twice
\* gives the index back, and every result is an index of the grid (0..7).
C2_Involution ==
    (pc = "map_twice" /\ OnGrid /\ mapArg.mode \in {LongEdgeMirrored, ShortEdge}) =>
        /\ mapOut[2] = mapArg.i
        /\ mapOut[1] \in 0..7
        /\ mapOut[2] \in 0..7

C2_Witness ==
    /\ pc = "map_twice" /\ OnGrid /\ mapArg.mode = ShortEdge
    /\ mapArg.i = 3 /\ mapOut = <<4, 3>>

-----------------------------------------------------------------------------
(* render_footer *)

PH_subject == <<"{","s","u","b","j","e","c","t","}">>
PH_unit    == <<"{","u","n","i","t","}">>
PH_lesson  == <<"{","l","e","s","s","o","n","}">>
PH_index   == <<"{","i","n","d","e","x","}">>
PH_page    == <<"{","p","a","g","e","}">>

render_footer(template, subject, unit, lesson, index1, page1) ==
    LET t0 == OrEmpty(template)
        t1 == Replace(t0, PH_subject, OrEmpty(subject))
        t2 == Replace(t1, PH_unit, Or(unit, Or(lesson, <<>>)))
        t3 == Replace(t2, PH_lesson, Or(lesson, Or(unit, <<>>)))
        t4 == Replace(t3, PH_index, IntToStr(index1))
        t5 == Replace(t4, PH_page, IntToStr(page1))
    IN strip(t5)

\* Bounds of the footer inputs
MaxIndex == 2
MaxPage  == 2

Bio == <<"B","i","o">>
U1  == <<"U","1">>
L2  == <<"L","2">>

Templates ==
    { PH_subject \o <<" ", BULLET, " ">> \o PH_unit,      \* the UI's default
      PH_subject \o <<" ">> \o PH_lesson,
      PH_index \o <<"/">> \o PH_page,
      <<"{","f","o","o","}">>,                          \* unknown placeholder
      PH_subject \o <<" ", "{", "0", "}">>,             \* positional reference
      <<"{","s","u","b","j","e","c","t">>,              \* unbalanced brace
      <<"c","a","r","d"," ">> \o PH_index,
      <<>> }

InitFoot ==
    /\ pc = "foot_start"
    /\ \E t \in Templates, s \in {<<>>, Bio}, u \in {<<>>, U1}, l \in {<<>>, L2},
          n \in 0..MaxIndex, p \in 1..MaxPage :
         footArg = [template |-> t, subject |-> s, unit |-> u, lesson |-> l,
                    index1 |-> n, page1 |-> p]
    /\ footOut = <<>>
    /\ IdleMap /\ IdleSplit /\ IdleParse /\ IdlePdf

RenderFooter ==
    /\ pc = "foot_start"
    /\ footOut' = render_footer(footArg.template, footArg.subject, footArg.unit,
                                footArg.lesson, footArg.index1, footArg.page1)
    /\ pc' = "foot_done"
    /\ UNCHANGED <<footArg, mapVars, splitVars, parseVars, pdfVars>>

NextFoot == RenderFooter
SpecFoot == InitFoot /\ [][NextFoot]_vars

\* what is left of a template once the five known placeholders are taken out
Residue(t) ==
    Replace(Replace(Replace(Replace(Replace(t, PH_subject, <<>>), PH_unit, <<>>),
                            PH_lesson, <<>>), PH_index, <<>>), PH_page, <<>>)
Unresolvable(t) == \E k \in 1..Len(Residue(t)) : Residue(t)[k] \in {"{", "}"}

\* the "{subject} {lesson}"-style default built from the subject and lesson values
DefaultFooter(subject, unit, lesson) ==
    strip(subject \o <<" ">> \o Or(lesson, unit))

\* C9: a template with a reference that cannot be resolved renders as the
\* default "{subject} {lesson}" text, not as the template with the reference
\* left in it.
C9_FallbackToDefault ==
    (pc = "foot_done" /\ Unresolvable(footArg.template)) =>
        footOut = DefaultFooter(footArg.subject, footArg.unit, footArg.lesson)

-----------------------------------------------------------------------------
(* create_pdf *)

PtScale == 127          \* lengths are in 1/127 pt: 72/25.4 = 360/127
PAGE_W  == 612          \* reportlab.lib.pagesizes.letter, in pt
PAGE_H  == 792
MARGIN  == 18
card_w  == (PAGE_W - 2 * MARGIN) \div COLS
card_h  == (PAGE_H - 2 * MARGIN) \div ROWS

\* float(val_mm) * 72.0 / 25.4, val_mm given in quarters of a mm
mm_to_points(q) == (q * 72 * 10 * PtScale) \div (4 * 254)

\* a plausible slip: one card too many in a batch
batch_of_long(recs, st) == SubSeq(recs, st + 1, Min(st + COLS * ROWS + 1, Len(recs)))

\* records[start:start+COLS*ROWS]
batch_of(recs, st) == SubSeq(recs, st + 1, Min(st + COLS * ROWS, Len(recs)))

batch == batch_of(records, start)

\* the card box of cell k on the front page
front_origin(k) ==
    LET col == k % COLS
        row == k \div COLS
    IN [x |-> PtScale * (MARGIN + col * card_w),
        y |-> PtScale * (PAGE_H - MARGIN - (row + 1) * card_h)]

\* a plausible slip: the vertical offset subtracted, as if y grew downwards
back_origin_flipped(j, offx, offy) ==
    LET col == j % COLS
        row == j \div COLS
    IN [x |-> PtScale * (MARGIN + col * card_w) + mm_to_points(offx),
        y |-> PtScale * (PAGE_H - MARGIN - (row + 1) * card_h) - mm_to_points(offy)]

\* the card box of cell j on the back page
back_origin(j, offx, offy) ==
    LET col == j % COLS
        row == j \div COLS
    IN [x |-> PtScale * (MARGIN + col * card_w) + mm_to_points(offx),
        y |-> PtScale * (PAGE_H - MARGIN - (row + 1) * card_h) + mm_to_points(offy)]

\* Bounds of the create_pdf inputs
MaxCards == 17
OffsetsQ == {-1, 0, 2}               \* -0.25 mm, 0 mm, 0.5 mm

PdfTemplates == { PH_subject \o <<" ", BULLET, " ">> \o PH_unit,
                  PH_index \o <<"/">> \o PH_page,
                  <<>> }

InitPdf ==
    /\ pc = "pdf_loop"
    /\ \E n \in 0..MaxCards : records = [k \in 1..n |-> k]
    /\ \E m \in DuplexModes, ox \in OffsetsQ, oy \in OffsetsQ, f \in BOOLEAN,
          t \in PdfTemplates, sc \in BOOLEAN :
         cfg = [duplex_mode |-> m, offx_mm |-> ox, offy_mm |-> oy,
                include_footer |-> f, subject |-> Bio, unit |-> U1, lesson |-> U1,
                footer_template |-> t, show_corner |-> sc]
    /\ start = 0 /\ page_no = 0 /\ global_idx = 0 /\ i = 0
    /\ page = <<>> /\ canvas = <<>>
    /\ IdleMap /\ IdleFoot /\ IdleSplit /\ IdleParse

\* for start in range(0, total, COLS*ROWS): page_no += 1, the guides are drawn
BeginBatch ==
    /\ pc = "pdf_loop" /\ start < Len(records)
    /\ page_no' = page_no + 1
    /\ i' = 0 /\ page' = <<>>
    /\ pc' = "pdf_front"
    /\ UNCHANGED <<records, cfg, start, global_idx, canvas,
                   mapVars, footVars, splitVars, parseVars>>

\* one pass of "for i, rec in enumerate(batch)" on the front page
DrawFront ==
    /\ pc = "pdf_front" /\ i < Len(batch)
    /\ LET rec == batch[i + 1]
           o   == front_origin(i)
           footer == IF cfg.include_footer
                     THEN render_footer(cfg.footer_template, cfg.subject, cfg.unit,
                                        cfg.lesson, global_idx + 1, page_no)
                     ELSE <<>>
       IN page' = Append(page, [rec |-> rec, cell |-> i, x |-> o.x, y |-> o.y,
                                footer |-> footer])
    /\ global_idx' = global_idx + 1
    /\ i' = i + 1
    /\ UNCHANGED <<pc, records, cfg, start, page_no, canvas,
                   mapVars, footVars, splitVars, parseVars>>

\* c.showPage() after the terms, then the guides of the back page
ShowFront ==
    /\ pc = "pdf_front" /\ i = Len(batch)
    /\ canvas' = Append(canvas, [side |-> "front", draws |-> page, corner |-> FALSE])
    /\ page' = <<>> /\ i' = 0
    /\ pc' = "pdf_back"
    /\ UNCHANGED <<records, cfg, start, page_no, global_idx,
                   mapVars, footVars, splitVars, parseVars>>

\* one pass of "for i, rec in enumerate(batch)" on the back page
DrawBack ==
    /\ pc = "pdf_back" /\ i < Len(batch)
    /\ LET rec == batch[i + 1]
           j   == map_back_index(i, COLS, ROWS, cfg.duplex_mode)
           o   == back_origin(j, cfg.offx_mm, cfg.offy_mm)
           footer == IF cfg.include_footer
                     THEN render_footer(cfg.footer_template, cfg.subject, cfg.unit,
                                        cfg.lesson, 0, page_no)
                     ELSE <<>>
       IN page' = Append(page, [rec |-> rec, cell |-> j, x |-> o.x, y |-> o.y,
                                footer |-> footer])
    /\ i' = i + 1
    /\ UNCHANGED <<pc, records, cfg, start, page_no, global_idx, canvas,
                   mapVars, footVars, splitVars, parseVars>>

\* the corner marker, c.showPage(), and the next start
ShowBack ==
    /\ pc = "pdf_back" /\ i = Len(batch)
    /\ canvas' = Append(canvas, [side |-> "back", draws |-> page,
                                 corner |-> cfg.show_corner])
    /\ page' = <<>> /\ i' = 0
    /\ start' = start + COLS * ROWS
    /\ pc' = "pdf_loop"
    /\ UNCHANGED <<records, cfg, page_no, global_idx,
                   mapVars, footVars, splitVars, parseVars>>

\* c.save(); return buf.getvalue()
Save ==
    /\ pc = "pdf_loop" /\ start >= Len(records)
    /\ pc' = "pdf_done"
    /\ UNCHANGED <<pdfVars, mapVars, footVars, splitVars, parseVars>>

NextPdf == BeginBatch \/ DrawFront \/ ShowFront \/ DrawBack \/ ShowBack \/ Save
SpecPdf == InitPdf /\ [][NextPdf]_vars

CeilDiv(a, b) == (a + b - 1) \div b
RecsOf(pg) == [k \in 1..Len(pg.draws) |-> pg.draws[k].rec]

\* C3: N records give exactly ceil(N/8) page pairs: batch k (0-based) is the
\* records 8k+1..min(8k+8, N) in order, its front page is page 2k+1 and its
\* back page is page 2k+2; no page at all for N = 0.
C3_Pagination ==
    (pc = "pdf_done") =>
        LET N == Len(records) IN
        /\ Len(canvas) = 2 * CeilDiv(N, 8)
        /\ \A k \in 0..(CeilDiv(N, 8) - 1) :
             LET cards == SubSeq(records, 8 * k + 1, Min(8 * k + 8, N)) IN
             /\ canvas[2 * k + 1].side = "front"
             /\ canvas[2 * k + 2].side = "back"
             /\ RecsOf(canvas[2 * k + 1]) = cards
             /\ RecsOf(canvas[2 * k + 2]) = cards

C3_Witness ==
    /\ pc = "pdf_done" /\ Len(records) = 17 /\ Len(canvas) = 6
    /\ RecsOf(canvas[5]) = <<17>> /\ RecsOf(canvas[6]) = <<17>>
    /\ Len(canvas[1].draws) = 8 /\ Len(canvas[4].draws) = 8

\* C4: in every page pair, what is drawn on the back in a cell starts at the
\* front origin of that cell moved by exactly (offx_mm, offy_mm) in points,
\* and a front origin is the grid position of the cell with no offset in it.
C4_BackOffsetOnly ==
    \A p \in 1..Len(canvas) :
        /\ canvas[p].side = "front" =>
             \A f \in 1..Len(canvas[p].draws) :
                LET d == canvas[p].draws[f] IN
                /\ d.x = PtScale * (MARGIN + (d.cell % 2) * card_w)
                /\ d.y = PtScale * (PAGE_H - MARGIN - ((d.cell \div 2) + 1) * card_h)
        /\ (canvas[p].side = "back" /\ p > 1) =>
             \A b \in 1..Len(canvas[p].draws), f \in 1..Len(canvas[p - 1].draws) :
                LET bd == canvas[p].draws[b]
                    fd == canvas[p - 1].draws[f]
                IN bd.cell = fd.cell =>
                     /\ (bd.x - fd.x) * 4 * 254 = cfg.offx_mm * 72 * 10 * PtScale
                     /\ (bd.y - fd.y) * 4 * 254 = cfg.offy_mm * 72 * 10 * PtScale

C4_Witness ==
    /\ pc = "pdf_done" /\ Len(canvas) = 2 /\ Len(records) = 8
    /\ cfg.duplex_mode = ShortEdge /\ cfg.offx_mm = 2 /\ cfg.offy_mm = -1
    /\ canvas[2].draws[1].cell = 7
    /\ canvas[2].draws[1].x - canvas[1].draws[8].x = 180
    /\ canvas[2].draws[1].y - canvas[1].draws[8].y = -90

PositionOf(rec) == CHOOSE k \in 1..Len(records) : records[k] = rec

\* C10: with the footer enabled, every footer drawn for a card, front and back,
\* has {index} bound to the card's 1-based position in the whole record
\* sequence and {page} bound to the 1-based number of its page pair.
C10_FooterIndexAndPage ==
    cfg.include_footer =>
        \A p \in 1..Len(canvas) : \A k \in 1..Len(canvas[p].draws) :
            canvas[p].draws[k].footer =
                render_footer(cfg.footer_template, cfg.subject, cfg.unit, cfg.lesson,
                              PositionOf(canvas[p].draws[k].rec), (p + 1) \div 2)

-----------------------------------------------------------------------------
(* The regular expressions of the parser, as the matcher runs them *)

NBHYPHEN == "<U+2011>"    \* non-breaking hyphen

IsListPunct(c)  == c \in {".", ")"}
IsTrailPunct(c) == c \in {")", ".", "-"}
IsBullet(c)     == c \in {"-", "*", BULLET}
IsDashOrColon(c) == c \in {"-", ENDASH, EMDASH, ":"}
IsWord(c)       == IsAlpha(c) \/ IsDigit(c) \/ c = "_"
IsTermChar(c)   == IsWord(c) \/ c \in {"'", NBHYPHEN, "-"}

\* the character classes that are repeated in the expressions
InClass(c, class) ==
    CASE class = "\\d"        -> IsDigit(c)
      [] class = "\\s"        -> IsSpace(c)
      [] class = "\\S"        -> ~IsSpace(c)
      [] class = "[).-]"      -> IsTrailPunct(c)
      [] class = "[\\w'-]"    -> IsTermChar(c)
      [] class = "[^)]"       -> c # ")"

\* a greedy repetition: the length of the longest prefix of s in the class
RunLen(s, class) ==
    LET ks == {k \in 0..Len(s) : \A j \in 1..k : InClass(s[j], class)}
    IN CHOOSE k \in ks : \A h \in ks : h <= k

\* re.match(r"^(\d+[\.\)]\s+|[-*•]\s+)", line)
match_marker(line) ==
    LET d == RunLen(line, "\\d") IN
    \/ /\ d >= 1
       /\ Len(line) >= d + 2
       /\ IsListPunct(line[d + 1])
       /\ IsSpace(line[d + 2])
    \/ /\ Len(line) >= 2
       /\ IsBullet(line[1])
       /\ IsSpace(line[2])

InlineGap == 60

\* re.match(r"^[A-Za-z][^\n]{0,60}?(?:\s[\-–—:]\s|\s\([^)]+\))", line)
match_inline(line) ==
    /\ line # <<>>
    /\ IsAlpha(line[1])
    /\ \E m \in 0..InlineGap :
         LET p == m + 2 IN
         /\ \A r \in 2..(m + 1) : r <= Len(line) /\ line[r] # NL
         /\ Len(line) >= p + 2
         /\ IsSpace(line[p])
         /\ \/ IsDashOrColon(line[p + 1]) /\ IsSpace(line[p + 2])
            \/ /\ line[p + 1] = "("
               /\ RunLen(Tail_(line, p + 2), "[^)]") >= 1
               /\ RunLen(Tail_(line, p + 2), "[^)]") < Len(line) - (p + 1)

\* a plausible slip: only the list markers start an item
line_starts_new_item_markers(line0) ==
    LET line == lstrip(line0) IN
    IF line = <<>> THEN FALSE ELSE match_marker(line)

line_starts_new_item(line0) ==
    LET line == lstrip(line0) IN
    IF line = <<>> THEN FALSE
    ELSE IF match_marker(line) THEN TRUE
    ELSE IF match_inline(line) THEN TRUE
    ELSE FALSE

\* s.split(sep): the pieces between the occurrences of sep, left to right
RECURSIVE SplitOn(_, _)
SplitOn(s, sep) ==
    LET k == Find(s, sep)
    IN IF k = 0 THEN <<s>>
       ELSE <<SubSeq(s, 1, k - 1)>> \o SplitOn(Tail_(s, k + Len(sep)), sep)

\* sep.join(parts)
RECURSIVE Join(_, _)
Join(parts, sep) ==
    IF parts = <<>> THEN <<>>
    ELSE IF Len(parts) = 1 THEN parts[1]
    ELSE parts[1] \o sep \o Join(Tail(parts), sep)

\* text.splitlines(), the only line break in the texts here being "\n"
RECURSIVE splitlines(_)
splitlines(s) ==
    IF s = <<>> THEN <<>>
    ELSE LET k == Find(s, <<NL>>)
         IN IF k = 0 THEN <<s>>
            ELSE <<SubSeq(s, 1, k - 1)>> \o splitlines(Tail_(s, k + 1))

\* [x for x in seq if x.strip()], each stripped
RECURSIVE NonEmptyStripped(_)
NonEmptyStripped(parts) ==
    IF parts = <<>> THEN <<>>
    ELSE (IF strip(parts[1]) # <<>> THEN <<strip(parts[1])>> ELSE <<>>)
         \o NonEmptyStripped(Tail(parts))

-----------------------------------------------------------------------------
(* split_term_def *)

safe(s) == strip(OrEmpty(s))

\* re.sub(r"^(\d+[\)\.\-]*\s+|[-*•]\s+)", "", s).strip()
strip_marker(s) ==
    LET d  == RunLen(s, "\\d")
        p  == RunLen(Tail_(s, d + 1), "[).-]")
        w  == RunLen(Tail_(s, d + p + 1), "\\s")
        wb == RunLen(Tail_(s, 2), "\\s")
    IN IF d >= 1
       THEN (IF w >= 1 THEN strip(Tail_(s, d + p + w + 1)) ELSE strip(s))
       ELSE IF s # <<>> /\ IsBullet(s[1]) /\ wb >= 1
            THEN strip(Tail_(s, wb + 2))
            ELSE strip(s)

\* find_colon_outside_parens, 1-based; 0 for the code's -1.  The loop is run
\* from one of "(", ")", ":" to the next: no other character changes depth.
RECURSIVE colon_scan(_, _, _)
colon_scan(text, from, depth) ==
    LET ks == {j \in from..Len(text) : text[j] \in {"(", ")", ":"}}
        k  == IF ks = {} THEN 0 ELSE CHOOSE j \in ks : \A h \in ks : j <= h
    IN IF k = 0 THEN 0
       ELSE IF text[k] = "(" THEN colon_scan(text, k + 1, depth + 1)
       ELSE IF text[k] = ")" THEN colon_scan(text, k + 1, Max(0, depth - 1))
       ELSE IF depth = 0 THEN k
       ELSE colon_scan(text, k + 1, depth)

find_colon_outside_parens(text) == colon_scan(text, 1, 0)

\* lhs, rhs = s.split(token, 1), then safe() of both
split_at(s, token) ==
    LET k == Find(s, token)
    IN <<safe(SubSeq(s, 1, k - 1)), safe(Tail_(s, k + Len(token)))>>

SpacedDashes == << <<" ", "-", " ">>, <<" ", EMDASH, " ">>, <<" ", ENDASH, " ">> >>
BareDashes   == << <<EMDASH>>, <<ENDASH>> >>

\* the first token of the list that occurs in s, 0 when none does
first_token(s, tokens) ==
    LET ks == {k \in 1..Len(tokens) : Contains(s, tokens[k])}
    IN IF ks = {} THEN 0 ELSE CHOOSE k \in ks : \A h \in ks : k <= h

\* re.match(r"^\s*([A-Za-z][\w'‑\-]*)\s*\(([^)]+)\)\s*(.+)$", s):
\* <<matched, term, pos, rest>>
dict_match(s0) ==
    LET s    == lstrip(s0)
        n1   == IF s # <<>> /\ IsAlpha(s[1]) THEN 1 + RunLen(Tail(s), "[\\w'-]") ELSE 0
        w1   == RunLen(Tail_(s, n1 + 1), "\\s")
        open == n1 + w1 + 1
        ann  == RunLen(Tail_(s, open + 1), "[^)]")
        close == open + ann + 1
        w2   == RunLen(Tail_(s, close + 1), "\\s")
        rest == Tail_(s, close + w2 + 1)
        ok   == /\ n1 >= 1
                /\ open <= Len(s) /\ s[open] = "("
                /\ ann >= 1
                /\ close <= Len(s)
                /\ rest # <<>>
                /\ ~Contains(rest, <<NL>>)
    IN IF ok THEN <<TRUE, SubSeq(s, 1, n1), SubSeq(s, open + 1, close - 1), rest>>
       ELSE <<FALSE, <<>>, <<>>, <<>>>>

\* s.split(None, 1)
split_first_space(s0) ==
    LET s == lstrip(s0)
        n == RunLen(s, "\\S")
        r == lstrip(Tail_(s, n + 1))
    IN IF s = <<>> THEN <<>>
       ELSE IF r = <<>> THEN <<SubSeq(s, 1, n)>>
       ELSE <<SubSeq(s, 1, n), r>>

\* a plausible slip: the colon tried before the tab
split_term_def_colon_first(s0) ==
    LET s     == strip_marker(strip(s0))
        idx   == find_colon_outside_parens(s)
        sp    == first_token(s, SpacedDashes)
        bare  == first_token(s, BareDashes)
        m     == dict_match(s)
        parts == split_first_space(s)
    IN IF idx # 0 THEN <<safe(SubSeq(s, 1, idx - 1)), safe(Tail_(s, idx + 1))>>
       ELSE IF Contains(s, <<TAB>>) THEN split_at(s, <<TAB>>)
       ELSE IF sp # 0 THEN split_at(s, SpacedDashes[sp])
       ELSE IF bare # 0 THEN split_at(s, BareDashes[bare])
       ELSE IF m[1] THEN <<safe(m[2]), safe(<<"(">> \o m[3] \o <<")", " ">> \o m[4])>>
       ELSE IF Len(parts) = 2 THEN <<safe(parts[1]), safe(parts[2])>>
       ELSE <<safe(s), <<>>>>

split_term_def(s0) ==
    LET s     == strip_marker(strip(s0))
        idx   == find_colon_outside_parens(s)
        sp    == first_token(s, SpacedDashes)
        bare  == first_token(s, BareDashes)
        m     == dict_match(s)
        parts == split_first_space(s)
    IN IF Contains(s, <<TAB>>) THEN split_at(s, <<TAB>>)
       ELSE IF idx # 0 THEN <<safe(SubSeq(s, 1, idx - 1)), safe(Tail_(s, idx + 1))>>
       ELSE IF sp # 0 THEN split_at(s, SpacedDashes[sp])
       ELSE IF bare # 0 THEN split_at(s, BareDashes[bare])
       ELSE IF m[1] THEN <<safe(m[2]), safe(<<"(">> \o m[3] \o <<")", " ">> \o m[4])>>
       ELSE IF Len(parts) = 2 THEN <<safe(parts[1]), safe(parts[2])>>
       ELSE <<safe(s), <<>>>>

-----------------------------------------------------------------------------
(* split_term_def applied to a row *)

\* Bound of the rows enumerated in full
MaxRowLen == 5

SplitAlphabet == {"a", "1", " ", TAB, ":", "(", ")", "-", EMDASH}

\* longer rows, one per shape of split
LongRows ==
    { <<"a", " ", "(", "b", ")", " ", "c">>,                          \* 'a (b) c'
      <<"a", " ", "(", "b", ")", " ", "c", EMDASH, "d">>,             \* 'a (b) c—d'
      <<"a", " ", EMDASH, " ", "b", " ", "-", " ", "c">>,             \* 'a — b - c'
      <<"a", " ", ENDASH, " ", "b", " ", EMDASH, " ", "c">>,          \* 'a – b — c'
      <<"a", "(", "b", ":", "c", ")", " ", "d">>,                     \* 'a(b:c) d'
      <<"a", " ", "(", "b", ":", "c", ")", ":", " ", "d">>,           \* 'a (b:c): d'
      <<"1", ")", TAB, "a", ":", "b">>,                               \* '1)\ta:b'
      <<"a", TAB, "b", ":", "c">>,                                    \* 'a\tb:c'
      <<"1", ".", " ", "a", " ", "-", " ", "b">>,                     \* '1. a - b'
      <<"a", ")", " ", "b", ":", " ", "c">>,                          \* 'a) b: c'
      <<"-", " ", "a", " ", "b">>,                                    \* '- a b'
      <<"1", " ", "a">>,                                              \* '1 a'
      <<"a", EMDASH, "b", ENDASH, "c">>,                              \* 'a—b–c'
      <<"a", "b", "c">>,                                              \* 'abc'
      <<"a", " ", " ", "b", " ", "c">>,                               \* 'a  b c'
      <<"a", " ", "(", "b", ")">>,                                    \* 'a (b)'
      <<"(", "b", ")", " ", "c">>,                                    \* '(b) c'
      <<"a", "-", "a", " ", "(", "b", ")", " ", "c">>                 \* 'a-a (b) c'
    }

SplitRows == UNION {[1..n -> SplitAlphabet] : n \in 0..MaxRowLen} \cup LongRows

InitSplit ==
    /\ pc = "split_start"
    /\ splitArg \in SplitRows
    /\ splitOut = <<>>
    /\ IdleMap /\ IdleFoot /\ IdleParse /\ IdlePdf

SplitRow ==
    /\ pc = "split_start"
    /\ splitOut' = split_term_def(splitArg)
    /\ pc' = "split_done"
    /\ UNCHANGED <<splitArg, mapVars, footVars, parseVars, pdfVars>>

NextSplit == SplitRow
SpecSplit == InitSplit /\ [][NextSplit]_vars

\* the row as the separators see it: trimmed, a leading number or bullet removed
Norm(row) == strip_marker(strip(row))

\* the first position of r whose character satisfies P, 0 when there is none
FirstPos(r, P(_)) ==
    LET ks == {k \in 1..Len(r) : P(r[k])}
    IN IF ks = {} THEN 0 ELSE CHOOSE k \in ks : \A h \in ks : k <= h

\* r cut at position p, the n characters from p on left out, both sides trimmed
Cut(r, p, n) == <<strip(SubSeq(r, 1, p - 1)), strip(SubSeq(r, p + n, Len(r)))>>

\* parenthesis depth after the first k characters, never below 0
RECURSIVE ParenDepth(_, _)
ParenDepth(r, k) ==
    IF k = 0 THEN 0
    ELSE IF r[k] = "(" THEN ParenDepth(r, k - 1) + 1
    ELSE IF r[k] = ")" THEN Max(0, ParenDepth(r, k - 1) - 1)
    ELSE ParenDepth(r, k - 1)

Depth0Colon(r) ==
    LET ks == {k \in 1..Len(r) : r[k] = ":" /\ ParenDepth(r, k - 1) = 0}
    IN IF ks = {} THEN 0 ELSE CHOOSE k \in ks : \A h \in ks : k <= h

\* the spaced dash that comes first in the row, whichever of the three it is
EarliestSpacedDash(r) ==
    LET ks == {k \in 1..(Len(r) - 2) :
                 r[k] = " " /\ r[k + 1] \in {"-", ENDASH, EMDASH} /\ r[k + 2] = " "}
    IN IF ks = {} THEN 0 ELSE CHOOSE k \in ks : \A h \in ks : k <= h

\* the first " - " if there is one, else the first " em ", else the first " en "
SpacedDashInTokenOrder(r) ==
    IF Contains(r, <<" ", "-", " ">>) THEN Find(r, <<" ", "-", " ">>)
    ELSE IF Contains(r, <<" ", EMDASH, " ">>) THEN Find(r, <<" ", EMDASH, " ">>)
    ELSE Find(r, <<" ", ENDASH, " ">>)

\* the first em dash if there is one, else the first en dash
BareDash(r) ==
    IF Contains(r, <<EMDASH>>) THEN Find(r, <<EMDASH>>) ELSE Find(r, <<ENDASH>>)

\* the readings of r as term (annotation) rest: a word that starts with a letter,
\* optional spaces, a parenthesised annotation of at least one character, optional
\* spaces and a rest of at least one character
DictReadings(r) ==
    { <<SubSeq(r, 1, a), SubSeq(r, b, c) \o <<" ">> \o strip(Tail_(r, c + 1))>> :
        <<a, b, c>> \in
          { t \in (1..Len(r)) \X (1..Len(r)) \X (1..Len(r)) :
              /\ t[1] < t[2] /\ t[2] + 1 < t[3]
              /\ IsAlpha(r[1])
              /\ \A k \in 2..t[1] : IsTermChar(r[k])
              /\ \A k \in (t[1] + 1)..(t[2] - 1) : IsSpace(r[k])
              /\ r[t[2]] = "("
              /\ r[t[3]] = ")"
              /\ \A k \in (t[2] + 1)..(t[3] - 1) : r[k] # ")"
              /\ strip(Tail_(r, t[3] + 1)) # <<>> } }

OnlyOf(S) == CHOOSE x \in S : TRUE

\* the split the six rules of the claim give, a bare dash being no separator
SplitAsStated(r) ==
    IF FirstPos(r, LAMBDA c : c = TAB) # 0 THEN Cut(r, FirstPos(r, LAMBDA c : c = TAB), 1)
    ELSE IF Depth0Colon(r) # 0 THEN Cut(r, Depth0Colon(r), 1)
    ELSE IF EarliestSpacedDash(r) # 0 THEN Cut(r, EarliestSpacedDash(r), 3)
    ELSE IF DictReadings(r) # {} THEN OnlyOf(DictReadings(r))
    ELSE IF FirstPos(r, IsSpace) # 0 THEN Cut(r, FirstPos(r, IsSpace), 1)
    ELSE <<r, <<>>>>

\* the same with the spaced dashes tried in the order " - ", em, en and the bare
\* em or en dash as a separator between the spaced dash and the dictionary pattern
SplitAmended(r) ==
    IF FirstPos(r, LAMBDA c : c = TAB) # 0 THEN Cut(r, FirstPos(r, LAMBDA c : c = TAB), 1)
    ELSE IF Depth0Colon(r) # 0 THEN Cut(r, Depth0Colon(r), 1)
    ELSE IF SpacedDashInTokenOrder(r) # 0 THEN Cut(r, SpacedDashInTokenOrder(r), 3)
    ELSE IF BareDash(r) # 0 THEN Cut(r, BareDash(r), 1)
    ELSE IF DictReadings(r) # {} THEN OnlyOf(DictReadings(r))
    ELSE IF FirstPos(r, IsSpace) # 0 THEN Cut(r, FirstPos(r, IsSpace), 1)
    ELSE <<r, <<>>>>

\* C6 as stated: the row is split by the first rule that matches among tab,
\* depth-0 colon, spaced dash, dictionary pattern, first whitespace run, whole
\* row, and by no other rule.
C6_AsStated ==
    (pc = "split_done") => splitOut = SplitAsStated(Norm(splitArg))

\* C6 amended: the trimmed row without its leading number or bullet is split by
\* the first rule that matches among tab, depth-0 colon, spaced dash (" - ", then
\* spaced em dash, then spaced en dash), bare em dash or en dash, dictionary
\* pattern, first whitespace run, whole row.
C6_PriorityOrder ==
    (pc = "split_done") => splitOut = SplitAmended(Norm(splitArg))

\* a row of the dictionary shape that holds a bare em dash is split at the dash
C6_Witness ==
    /\ pc = "split_done"
    /\ splitArg = <<"a", " ", "(", "b", ")", " ", "c", EMDASH, "d">>
    /\ DictReadings(Norm(splitArg)) # {}
    /\ splitOut = << <<"a", " ", "(", "b", ")", " ", "c">>, <<"d">> >>

-----------------------------------------------------------------------------
(* parse_text_to_df: coalesce_lines, then split_term_def on every row *)

\* Bound of the number of lines of a text
MaxLines == 3

L_numbered  == <<"1", ")", " ", "a">>                        \* '1) a'
L_bullet    == <<"-", " ", "b">>                             \* '- b'
L_colon     == <<"c", ":", " ", "d">>                        \* 'c: d'
L_dash      == <<"e", " ", "-", " ", "f">>                   \* 'e - f'
L_paren     == <<"g", " ", "(", "v", ")", " ", "h">>         \* 'g (v) h'
L_plain     == <<"x", " ", "y">>                             \* 'x y'
L_blank     == <<>>                                          \* ''
L_spaces    == <<" ", " ">>                                  \* '  '
L_onlycolon == <<":">>                                       \* ':'
L_indented  == <<" ", "2", ".", " ", "k">>                   \* ' 2. k'
L_tab       == <<"m", TAB, "n">>                             \* 'm\tn'
L_nospace   == <<"3", ".", "z">>                             \* '3.z'
\* a letter, n more characters, then " : b"
LongLine(n) == <<"a">> \o [k \in 1..n |-> "x"] \o <<" ", ":", " ", "b">>

ParseLines ==
    { L_numbered, L_bullet, L_colon, L_dash, L_paren, L_plain, L_blank, L_spaces,
      L_onlycolon, L_indented, L_tab, L_nospace,
      LongLine(InlineGap), LongLine(InlineGap + 1) }

ParseTexts == {Join(ls, <<NL>>) : ls \in UNION {[1..n -> ParseLines] : n \in 0..MaxLines}}

InitParse ==
    /\ pc = "parse_start"
    /\ raw_text \in ParseTexts
    /\ lines = <<>> /\ chunks = <<>> /\ curr = <<>>
    /\ blocks = <<>> /\ nblock = 0 /\ items = <<>>
    /\ IdleMap /\ IdleFoot /\ IdleSplit /\ IdlePdf

\* (text or "").replace("\r\n", "\n").splitlines()
CoalesceBegin ==
    /\ pc = "parse_start"
    /\ lines' = splitlines(Replace(OrEmpty(raw_text), <<CR, NL>>, <<NL>>))
    /\ pc' = "co_loop"
    /\ UNCHANGED <<raw_text, chunks, curr, blocks, nblock, items,
                   mapVars, footVars, splitVars, pdfVars>>

\* one pass of "for raw in ...splitlines()"
CoalesceLine ==
    /\ pc = "co_loop" /\ lines # <<>>
    /\ LET line == rstrip(Head(lines)) IN
       IF line_starts_new_item(line)
       THEN /\ chunks' = IF strip(curr) # <<>> THEN Append(chunks, strip(curr)) ELSE chunks
            /\ curr' = line
       ELSE IF strip(line) # <<>>
       THEN /\ curr' = IF curr # <<>> THEN strip(curr \o <<" ">> \o strip(line))
                       ELSE strip(line)
            /\ chunks' = chunks
       ELSE UNCHANGED <<chunks, curr>>
    /\ lines' = Tail(lines)
    /\ UNCHANGED <<pc, raw_text, blocks, nblock, items,
                   mapVars, footVars, splitVars, pdfVars>>

\* the last chunk, the split on "\n\n", and the return of coalesce_lines
CoalesceEnd ==
    /\ pc = "co_loop" /\ lines = <<>>
    /\ LET all == IF strip(curr) # <<>> THEN Append(chunks, strip(curr)) ELSE chunks
       IN /\ chunks' = all
          /\ blocks' = NonEmptyStripped(SplitOn(Join(all, <<NL, NL>>), <<NL, NL>>))
    /\ nblock' = 0
    /\ pc' = "items_loop"
    /\ UNCHANGED <<raw_text, lines, curr, items, mapVars, footVars, splitVars, pdfVars>>

\* one pass of "for block in coalesce_lines(raw_text or '')"
SplitBlock ==
    /\ pc = "items_loop" /\ nblock < Len(blocks)
    /\ LET td == split_term_def(blocks[nblock + 1])
       IN items' = IF td[1] # <<>> \/ td[2] # <<>> THEN Append(items, td) ELSE items
    /\ nblock' = nblock + 1
    /\ UNCHANGED <<pc, raw_text, lines, chunks, curr, blocks,
                   mapVars, footVars, splitVars, pdfVars>>

\* return pd.DataFrame(items, ...)
ParseReturn ==
    /\ pc = "items_loop" /\ nblock = Len(blocks)
    /\ pc' = "parse_done"
    /\ UNCHANGED <<parseVars, mapVars, footVars, splitVars, pdfVars>>

NextParse == CoalesceBegin \/ CoalesceLine \/ CoalesceEnd \/ SplitBlock \/ ParseReturn
SpecParse == InitParse /\ [][NextParse]_vars


RowsReturned == pc \in {"items_loop", "parse_done"}

\* the non-blank lines of the input, trimmed, in input order
NonBlankLines == NonEmptyStripped(splitlines(raw_text))

\* digits, then "." or ")", then whitespace
NumberedMarker(l) ==
    \E d \in 1..(Len(l) - 2) :
        /\ \A j \in 1..d : IsDigit(l[j])
        /\ l[d + 1] \in {".", ")"}
        /\ IsSpace(l[d + 2])

\* "-", "*" or a bullet, then whitespace
BulletMarker(l) == Len(l) >= 2 /\ l[1] \in {"-", "*", BULLET} /\ IsSpace(l[2])

BeginsWithMarker(l) == NumberedMarker(l) \/ BulletMarker(l)

\* an inline entry: a letter, at most InlineGap more characters, then whitespace
\* followed by a dash or colon and whitespace, or by a parenthesised group
LooksLikeEntry(l) ==
    /\ l # <<>> /\ IsAlpha(l[1])
    /\ \E p \in 2..Min(InlineGap + 2, Len(l) - 2) :
         /\ IsSpace(l[p])
         /\ \/ l[p + 1] \in {"-", ENDASH, EMDASH, ":"} /\ IsSpace(l[p + 2])
            \/ /\ l[p + 1] = "("
               /\ \E q \in (p + 3)..Len(l) :
                    l[q] = ")" /\ \A r \in (p + 2)..(q - 1) : l[r] # ")"

\* the rows of the lines L when exactly the lines satisfying Starts start a row
\* and every other line is appended to the open row with one space
RowsWhen(L, Starts(_)) ==
    LET S      == {k \in 1..Len(L) : k = 1 \/ Starts(L[k])}
        Nth(r) == CHOOSE k \in S : Cardinality({h \in S : h <= k}) = r
        End(k) == IF \E h \in S : h > k
                  THEN (CHOOSE h \in S : h > k /\ \A g \in S : g > k => h <= g) - 1
                  ELSE Len(L)
    IN [r \in 1..Cardinality(S) |-> Join(SubSeq(L, Nth(r), End(Nth(r))), <<" ">>)]

\* C5: parse_text_to_df returns one record per row of coalesce_lines, in row
\* order, the k-th record being the split of the k-th row; no row is dropped.
C5_OneRecordPerRow ==
    (pc = "parse_done") =>
        /\ Len(items) = Len(blocks)
        /\ \A k \in 1..Len(items) : items[k] = split_term_def(blocks[k])

\* C7: when the input holds two or more non-blank lines and none of them begins
\* with a numbered-list or bullet marker, coalesce_lines returns one row per
\* non-blank line, in input order.
C7_LinePerEntryFallback ==
    (/\ RowsReturned
     /\ Len(NonBlankLines) >= 2
     /\ \A k \in 1..Len(NonBlankLines) : ~BeginsWithMarker(NonBlankLines[k]))
    => blocks = NonBlankLines

====
